---- MODULE Spec2Model ----
(***************************************************************************)
(* Identity-and-authorization core of the alias service API.               *)
(*                                                                         *)
(*   src/app/api/base.py         authorize_request, check_sudo and the     *)
(*                               require_api_auth / require_api_sudo gates *)
(*   src/app/api/views/sudo.py   enter_sudo                                *)
(*   src/app/api/views/user.py   delete_user                               *)
(*   src/app/api/views/auth.py   auth_register, auth_activate,             *)
(*                               auth_reactivate                           *)
(*                                                                         *)
(* A request is a small process: every step is one round trip to the       *)
(* datastore (a SELECT, or the writes flushed by one Session.commit()), so *)
(* that requests handled by different workers interleave between commits.  *)
(***************************************************************************)
EXTENDS Integers, Sequences, FiniteSets, TLC

VARIABLES
    now,                 \* the wall clock (arrow.now()), in seconds
    ticks,               \* how many times the clock has advanced
    nreq,                \* how many requests have been received
    user,                \* table User: user id -> row
    api_keys,            \* table ApiKey: code -> row (the domain is the set of live keys)
    jobs,                \* table Job: the account-deletion jobs, in creation order
    reqs,                \* the requests in flight, one per worker
    last,                \* the last request answered, with its response
    last_grant,          \* history: code -> time of the last successful enter_sudo
    account_activation,  \* table AccountActivation: set of rows
    next_id,             \* the next primary key of AccountActivation
    issued,              \* history: record id -> owner, code, wrong-code answers given
                         \* on it, and the request that issued it
    social_auth,         \* table SocialAuth: set of <<user id, provider>>
    api_to_cookie_token, \* table ApiToCookieToken: set of rows
    token_seq,           \* how many ApiToCookieToken rows have been created
    redeemed             \* history: the redemption attempts so far, each with its outcome

vars == <<now, ticks, nreq, user, api_keys, jobs, reqs, last, last_grant,
          account_activation, next_id, issued,
          social_auth, api_to_cookie_token, token_seq, redeemed>>

actVars == <<account_activation, next_id, issued>>
tokenVars == <<api_to_cookie_token, token_seq, redeemed>>

----------------------------------------------------------------------------
(* Bounds of the model.                                                    *)

MaxTicks == 3
MaxReq == 3

(* Program constants.                                                      *)

SUDO_MODE_VALID == 5

Users == {"u1", "u2"}
NoUser == "anonymous"
\* the users who hold a web session (flask_login's current_user)
SessionUsers == {"u2"}
KeyCodes == {"k1"}
NoKey == "none"
NoHeader == "absent"
UnknownCode == "k0"
Headers == KeyCodes \cup {UnknownCode, NoHeader}
Passwords == {"pw1", "pw2"}
NoPassword == "absent"
Workers == {1, 2}
\* the pool of a deployment that handles one request at a time
OneWorker == {1}
GateEndpoints == {"enter_sudo", "delete_user"}

\* a nullable timestamp is the empty set (NULL) or a singleton
Null == {}
At(t) == {t}

\* The instants at which the clock is read: the first advance is one second
\* short of the sudo window, the following ones are one second each, so that
\* an elevation granted at 0 is looked at 4m59s, 5m00s and 5m01s later.
\* mutant: the window shifted in hours instead of minutes
SudoWindow_Hours == SUDO_MODE_VALID * 3600
\* arrow.now().shift(minutes=-SUDO_MODE_VALID), as a length in seconds
SudoWindow == SUDO_MODE_VALID * 60
TickStep(i) == IF i = 0 THEN SudoWindow - 1 ELSE 1

NoResp == [status |-> 0, error |-> ""]
Resp(st, err) == [status |-> st, error |-> err]

\* an AccountActivation row as a request holds it in memory; NoRow is None
NoRow == [id |-> 0, user_id |-> NoUser, code |-> "", tries |-> 0]
NoEmail == "absent"
NoCode == "absent"
NoDevice == "absent"
\* a signed value is its payload with the signature made over it
NoMfaKey == [payload |-> "", sig |-> <<>>]
\* a TOTP code is made from a secret at a time step
NoTotp == [secret |-> "", counter |-> 0]

IdleReq ==
    [pc |-> "idle", id |-> 0, ep |-> "", header |-> NoHeader, session |-> NoUser,
     password |-> NoPassword, key |-> NoKey, times_read |-> 0,
     g_user |-> NoUser, g_api_key |-> NoKey,
     email |-> NoEmail, code |-> NoCode, account_activation |-> NoRow,
     device |-> NoDevice, mfa_key |-> NoMfaKey, mfa_token |-> NoTotp,
     provider |-> "", login_user |-> NoUser, notified |-> NoUser, delivered |-> FALSE,
     ret_api_key |-> NoKey, ret_mfa_key |-> NoMfaKey, ret_token |-> 0,
     resp |-> NoResp]

----------------------------------------------------------------------------
(* src/app/api/base.py                                                     *)

\* mutant: the lookup matches any header that is present
GetKeyByCode_AnyCode(hdr) ==
    IF hdr # NoHeader /\ DOMAIN api_keys # {}
    THEN (IF hdr \in DOMAIN api_keys THEN hdr ELSE CHOOSE k \in DOMAIN api_keys : TRUE)
    ELSE NoKey

\* ApiKey.get_by(code=request.headers.get("Authentication"))
GetKeyByCode(hdr) == IF hdr \in DOMAIN api_keys THEN hdr ELSE NoKey

\* mutant: any elevation ever granted counts, however old
check_sudo_NoWindow(keys, k) ==
    /\ k # NoKey
    /\ keys[k].sudo_mode_at # Null

\* check_sudo(api_key), evaluated on the table `keys`
check_sudo(keys, k) ==
    /\ k # NoKey
    /\ keys[k].sudo_mode_at # Null
    /\ \E t \in keys[k].sudo_mode_at : t >= now - SudoWindow

\* mutant: the active check comes before the disabled check
StatusError_ActiveFirst(u) ==
    IF ~user[u].active THEN Resp(401, "Account inactive")
    ELSE IF user[u].disabled THEN Resp(403, "Disabled account")
    ELSE NoResp

\* lines 25-28 of authorize_request: the account-status checks on g.user
StatusError(u) ==
    IF user[u].disabled THEN Resp(403, "Disabled account")
    ELSE IF ~user[u].active THEN Resp(401, "Account inactive")
    ELSE NoResp

\* What the decorator does once g.user is resolved to u through key k (NoKey
\* for session auth): the status checks, g.api_key, and for require_api_sudo
\* the elevation check.  Yields the request's next state.
GateDecision(r, u, k, keys) ==
    IF StatusError(u) # NoResp
    THEN [r EXCEPT !.pc = "done", !.g_user = u, !.resp = StatusError(u)]
    ELSE IF r.ep = "delete_user" /\ ~check_sudo(keys, k)
    THEN [r EXCEPT !.pc = "done", !.g_user = u, !.g_api_key = k,
                   !.resp = Resp(440, "Sudo required")]
    ELSE [r EXCEPT !.pc = "body", !.g_user = u, !.g_api_key = k]

\* A request goes to the first worker of the pool W that is not handling one.
Free(W) == {w \in W : reqs[w].pc = "idle"}
FirstFree(W, w) == w \in Free(W) /\ \A v \in Free(W) : w <= v

\* Worker w's request moves to state r: an answered request leaves the worker.
Proceed(w, r) ==
    IF r.pc = "done"
    THEN reqs' = [reqs EXCEPT ![w] = IdleReq] /\ last' = r
    ELSE reqs' = [reqs EXCEPT ![w] = r] /\ last' = last

\* authorize_request line 16: the key lookup; lines 17-19 when no key matches
Authorize(w, ep, hdr, sess, pw) ==
    /\ reqs[w].pc = "idle"
    /\ nreq < MaxReq
    /\ ep = "delete_user" => pw = NoPassword
    /\ nreq' = nreq + 1
    /\ LET r == [IdleReq EXCEPT !.id = nreq + 1, !.ep = ep, !.header = hdr, !.session = sess,
                                !.password = pw]
           k == GetKeyByCode(hdr)
       IN  Proceed(w,
               IF k # NoKey
               THEN [r EXCEPT !.pc = "usage", !.key = k,
                              !.times_read = api_keys[k].times]
               ELSE IF sess = NoUser
               THEN [r EXCEPT !.pc = "done", !.resp = Resp(401, "Wrong API key")]
               ELSE GateDecision(r, sess, NoKey, api_keys))
    /\ UNCHANGED <<now, ticks, user, api_keys, jobs, last_grant>>
    /\ UNCHANGED actVars
    /\ UNCHANGED <<social_auth, api_to_cookie_token, token_seq, redeemed>>

\* mutant: the usage update is committed only when the gate lets the request
\* through
RecordUsage_OnlyOnSuccess(w) ==
    /\ reqs[w].pc = "usage"
    /\ LET k == reqs[w].key
           keys == [api_keys EXCEPT ![k].last_used = At(now),
                                    ![k].times = reqs[w].times_read + 1]
           r == GateDecision(reqs[w], api_keys[k].user_id, k, api_keys)
       IN  /\ api_keys' = IF r.pc = "body" THEN keys ELSE api_keys
           /\ Proceed(w, r)
    /\ UNCHANGED <<now, ticks, nreq, user, jobs, last_grant>>
    /\ UNCHANGED actVars
    /\ UNCHANGED <<social_auth, api_to_cookie_token, token_seq, redeemed>>

\* authorize_request lines 21-23: the usage update and its commit, then the
\* rest of the gate on the key's owner
RecordUsage(w) ==
    /\ reqs[w].pc = "usage"
    /\ LET k == reqs[w].key
           keys == [api_keys EXCEPT ![k].last_used = At(now),
                                    ![k].times = reqs[w].times_read + 1]
       IN  /\ api_keys' = keys
           /\ Proceed(w, GateDecision(reqs[w], keys[k].user_id, k, keys))
    /\ UNCHANGED <<now, ticks, nreq, user, jobs, last_grant>>
    /\ UNCHANGED actVars
    /\ UNCHANGED <<social_auth, api_to_cookie_token, token_seq, redeemed>>

----------------------------------------------------------------------------
(* src/app/api/views/sudo.py                                               *)

\* user.check_password(password)
check_password(u, pw) == user[u].password = pw

\* mutant: any password that is present is accepted
validate_password_AnyGiven(u, pw) == pw # NoPassword

\* validate_password(user, password)
validate_password(u, pw) ==
    IF pw = NoPassword THEN FALSE ELSE check_password(u, pw)

\* mutant: the elevation is stamped on every key of the key's owner
EnterSudo_AllKeysOfUser(w) ==
    /\ reqs[w].pc = "body"
    /\ reqs[w].ep = "enter_sudo"
    /\ LET r == reqs[w]
           k == r.g_api_key
       IN  IF ~validate_password(r.g_user, r.password)
           THEN /\ Proceed(w, [r EXCEPT !.pc = "done",
                     !.resp = Resp(403, "Invalid password or missing password")])
                /\ UNCHANGED <<api_keys, last_grant>>
           ELSE IF k = NoKey
           THEN /\ Proceed(w, [r EXCEPT !.pc = "done", !.resp = Resp(500, "unhandled")])
                /\ UNCHANGED <<api_keys, last_grant>>
           ELSE /\ api_keys' = [x \in DOMAIN api_keys |->
                                  IF api_keys[x].user_id = r.g_user
                                  THEN [api_keys[x] EXCEPT !.sudo_mode_at = At(now)]
                                  ELSE api_keys[x]]
                /\ last_grant' = [last_grant EXCEPT ![k] = At(now)]
                /\ Proceed(w, [r EXCEPT !.pc = "done", !.resp = Resp(200, "")])
    /\ UNCHANGED <<now, ticks, nreq, user, jobs>>
    /\ UNCHANGED actVars
    /\ UNCHANGED <<social_auth, api_to_cookie_token, token_seq, redeemed>>

\* the body of enter_sudo
EnterSudo(w) ==
    /\ reqs[w].pc = "body"
    /\ reqs[w].ep = "enter_sudo"
    /\ LET r == reqs[w]
           k == r.g_api_key
       IN  IF ~validate_password(r.g_user, r.password)
           THEN /\ Proceed(w, [r EXCEPT !.pc = "done",
                     !.resp = Resp(403, "Invalid password or missing password")])
                /\ UNCHANGED <<api_keys, last_grant>>
           ELSE IF k = NoKey
           THEN \* g.api_key is None: the attribute assignment raises
                /\ Proceed(w, [r EXCEPT !.pc = "done", !.resp = Resp(500, "unhandled")])
                /\ UNCHANGED <<api_keys, last_grant>>
           ELSE /\ api_keys' = [api_keys EXCEPT ![k].sudo_mode_at = At(now)]
                /\ last_grant' = [last_grant EXCEPT ![k] = At(now)]
                /\ Proceed(w, [r EXCEPT !.pc = "done", !.resp = Resp(200, "")])
    /\ UNCHANGED <<now, ticks, nreq, user, jobs>>
    /\ UNCHANGED actVars
    /\ UNCHANGED <<social_auth, api_to_cookie_token, token_seq, redeemed>>

----------------------------------------------------------------------------
(* src/app/api/views/user.py                                               *)

\* the body of delete_user; Job.create either commits or raises
DeleteUser(w) ==
    /\ reqs[w].pc = "body"
    /\ reqs[w].ep = "delete_user"
    /\ \/ /\ jobs' = Append(jobs, [user_id |-> reqs[w].g_user])
          /\ Proceed(w, [reqs[w] EXCEPT !.pc = "done", !.resp = Resp(200, "")])
       \/ /\ jobs' = jobs
          /\ Proceed(w, [reqs[w] EXCEPT !.pc = "done",
                        !.resp = Resp(500, "Failed to schedule delete job")])
    /\ UNCHANGED <<now, ticks, nreq, user, api_keys, last_grant>>
    /\ UNCHANGED actVars
    /\ UNCHANGED <<social_auth, api_to_cookie_token, token_seq, redeemed>>

\* arrow.now() moves on
Tick ==
    /\ ticks < MaxTicks
    /\ ticks' = ticks + 1
    /\ now' = now + TickStep(ticks)
    /\ UNCHANGED <<nreq, user, api_keys, jobs, reqs, last, last_grant>>
    /\ UNCHANGED actVars
    /\ UNCHANGED <<social_auth, api_to_cookie_token, token_seq, redeemed>>

----------------------------------------------------------------------------
(* The gate: registered users of every account status, each with one key.  *)

KeyOwner(k) == "u1"
PasswordOf(u) == IF u = "u1" THEN "pw1" ELSE "pw2"

GateInit ==
    /\ now = 0
    /\ ticks = 0
    /\ nreq = 0
    /\ \E dis \in [Users -> BOOLEAN], act \in [Users -> BOOLEAN] :
         /\ \E u \in Users : ~dis[u] /\ act[u]
         /\ user = [u \in Users |->
                   [registered |-> TRUE, activated |-> TRUE, disabled |-> dis[u],
                    active |-> act[u], password |-> PasswordOf(u),
                    delete_on |-> Null, enable_otp |-> FALSE, fido |-> FALSE]]
    /\ api_keys = [k \in KeyCodes |->
                     [user_id |-> KeyOwner(k), name |-> k, times |-> 0,
                      last_used |-> Null, sudo_mode_at |-> Null]]
    /\ jobs = <<>>
    /\ reqs = [w \in Workers |-> IdleReq]
    /\ last = IdleReq
    /\ last_grant = [k \in KeyCodes |-> Null]
    /\ account_activation = {}
    /\ next_id = 1
    /\ issued = <<>>
    /\ social_auth = {}
    /\ api_to_cookie_token = {}
    /\ token_seq = 0
    /\ redeemed = <<>>

GateStep(W) ==
    \/ \E w \in W, ep \in GateEndpoints, hdr \in Headers,
          sess \in SessionUsers \cup {NoUser}, pw \in Passwords \cup {NoPassword} :
          FirstFree(W, w) /\ Authorize(w, ep, hdr, sess, pw)
    \/ \E w \in W : RecordUsage(w)
    \/ \E w \in W : EnterSudo(w)
    \/ \E w \in W : DeleteUser(w)
    \/ Tick

\* requests served one after another, the clock running meanwhile
GateNext == GateStep(OneWorker)

SpecGate == GateInit /\ [][GateNext]_vars

\* requests served by two workers at once
GateRaceNext == GateStep(Workers)

SpecGateRace == GateInit /\ [][GateRaceNext]_vars

----------------------------------------------------------------------------
(* src/app/api/views/auth.py: auth_register, auth_activate, auth_reactivate *)

\* the retry budget a fresh AccountActivation row starts with
TriesBudget == 2
\* how many requests the activation specifications receive
MaxActReq == 5
MaxRaceReq == 4

\* the 6-digit activation codes
Codes == {"c1", "c2"}
\* the emails that sign up; the other addresses never have an account
Applicants == Users
RegisterPasswords == {"pw1", "short", "toolong"}
PasswordLength(pw) == IF pw = "short" THEN 7 ELSE IF pw = "toolong" THEN 101 ELSE 8
DISABLE_REGISTRATION == FALSE

\* User.get_by(email=email) or User.get_by(email=canonical_email); a user's
\* id stands for its email address
GetUserByEmail(email) ==
    IF email \in Users /\ user[email].registered THEN email ELSE NoUser

\* AccountActivation.get_by(user_id=user.id)
GetActivation(u) ==
    IF \E a \in account_activation : a.user_id = u
    THEN CHOOSE a \in account_activation : a.user_id = u
    ELSE NoRow

\* the rows with primary key id (one or none)
RowById(id) == {a \in account_activation : a.id = id}

\* mutant: the table accepts a second row for a user
UniqueViolation_None(u) == FALSE

\* the table keeps at most one row per user: an INSERT of a second one fails
UniqueViolation(u) == \E a \in account_activation : a.user_id = u

\* AccountActivation.create(user_id=user.id, code=code): tries takes its default
NewActivation(u, code) ==
    [id |-> next_id, user_id |-> u, code |-> code, tries |-> TriesBudget]

\* email_can_be_used_as_mailbox(email) and personal_email_already_used(email)
email_can_be_used_as_mailbox(email) == email \in Users
personal_email_already_used(email) == GetUserByEmail(email) # NoUser

\* the validation of auth_register, in the order of the code
RegisterError(email, pw) ==
    IF email = NoEmail /\ pw = NoPassword
    THEN Resp(400, "Request body cannot be empty")
    ELSE IF email = NoEmail \/ pw = NoPassword
    THEN Resp(400, "Missing required fields")
    ELSE IF DISABLE_REGISTRATION
    THEN Resp(403, "Registration is closed")
    ELSE IF ~email_can_be_used_as_mailbox(email) \/ personal_email_already_used(email)
    THEN Resp(400, "Cannot use email as personal inbox")
    ELSE IF PasswordLength(pw) < 8
    THEN Resp(400, "Password must be at least 8 characters long")
    ELSE IF PasswordLength(pw) > 100
    THEN Resp(400, "Password must be at most 100 characters long")
    ELSE NoResp

\* a request of endpoint ep as worker w receives it
NewReq(ep, email, code, pw) ==
    [IdleReq EXCEPT !.id = nreq + 1, !.ep = ep, !.email = email, !.code = code,
                    !.password = pw]

\* auth_register: the user and its activation row are committed together
Register(w, email, pw, newcode) ==
    /\ reqs[w].pc = "idle"
    /\ nreq' = nreq + 1
    /\ LET r == NewReq("register", email, NoCode, pw)
           err == RegisterError(email, pw)
       IN  IF err # NoResp
           THEN /\ Proceed(w, [r EXCEPT !.pc = "done", !.resp = err])
                /\ UNCHANGED <<user, account_activation, next_id, issued>>
           ELSE /\ user' = [user EXCEPT ![email] =
                              [registered |-> TRUE, activated |-> FALSE,
                               disabled |-> FALSE, active |-> TRUE, password |-> pw,
                               delete_on |-> Null, enable_otp |-> FALSE, fido |-> FALSE]]
                /\ account_activation' =
                       account_activation \cup {NewActivation(email, newcode)}
                /\ next_id' = next_id + 1
                /\ issued' = Append(issued, [user_id |-> email, code |-> newcode, wrong |-> 0,
                                          by |-> nreq + 1])
                /\ Proceed(w, [r EXCEPT !.pc = "done", !.g_user = email,
                                 !.resp = Resp(200, "User needs to confirm their account")])
    /\ UNCHANGED <<now, ticks, api_keys, jobs, last_grant>>
    /\ UNCHANGED <<social_auth, api_to_cookie_token, token_seq, redeemed>>

\* mutant: every submitted code is taken for the issued one
CodeMismatch_Never(a, code) == FALSE

\* auth_activate line 204
CodeMismatch(a, code) == a.code # code

\* mutant: the row is dropped only once tries has gone below zero
Exhausted_BelowZero(tries) == tries < 0

\* auth_activate line 210
Exhausted(tries) == tries = 0

\* mutant: an email without an account gets an answer of its own
ActivateLookupError_Revealing(u, a) ==
    IF u = NoUser THEN Resp(404, "No such user")
    ELSE IF user[u].activated THEN Resp(400, "Wrong email or code")
    ELSE IF a = NoRow THEN Resp(400, "Wrong email or code")
    ELSE NoResp

\* auth_activate lines 195-196 and 200-201: the answers when the lookups of
\* the user u and of its record a fail
ActivateLookupError(u, a) ==
    IF u = NoUser \/ user[u].activated THEN Resp(400, "Wrong email or code")
    ELSE IF a = NoRow THEN Resp(400, "Wrong email or code")
    ELSE NoResp

\* auth_activate lines 176-204: validation, the two lookups, the comparison
ActivateLoad(w, email, code) ==
    /\ reqs[w].pc = "idle"
    /\ nreq' = nreq + 1
    /\ LET r == NewReq("activate", email, code, NoPassword)
           u == GetUserByEmail(email)
           a == GetActivation(u)
       IN  Proceed(w,
             IF email = NoEmail /\ code = NoCode
             THEN [r EXCEPT !.pc = "done", !.resp = Resp(400, "Request body cannot be empty")]
             ELSE IF email = NoEmail \/ code = NoCode
             THEN [r EXCEPT !.pc = "done", !.resp = Resp(400, "Missing required fields")]
             ELSE IF u = NoUser \/ user[u].activated
             THEN [r EXCEPT !.pc = "done", !.resp = ActivateLookupError(u, a)]
             ELSE IF a = NoRow
             THEN [r EXCEPT !.pc = "done", !.g_user = u,
                            !.resp = ActivateLookupError(u, a)]
             ELSE IF CodeMismatch(a, code)
             THEN [r EXCEPT !.pc = "mismatch", !.g_user = u, !.account_activation = a]
             ELSE [r EXCEPT !.pc = "match", !.g_user = u, !.account_activation = a])
    /\ UNCHANGED <<now, ticks, user, api_keys, jobs, last_grant>>
    /\ UNCHANGED actVars
    /\ UNCHANGED <<social_auth, api_to_cookie_token, token_seq, redeemed>>

\* auth_activate lines 206-207: tries is decremented on the object loaded
\* before and the UPDATE is committed; it fails when the row is gone
ActivateWrite(w) ==
    /\ reqs[w].pc = "mismatch"
    /\ LET a == reqs[w].account_activation
       IN  IF RowById(a.id) = {}
           THEN /\ Proceed(w, [reqs[w] EXCEPT !.pc = "done", !.resp = Resp(500, "unhandled")])
                /\ UNCHANGED account_activation
           ELSE /\ account_activation' =
                     (account_activation \ RowById(a.id))
                        \cup {[x EXCEPT !.tries = a.tries - 1] : x \in RowById(a.id)}
                /\ Proceed(w, [reqs[w] EXCEPT !.pc = "written"])
    /\ UNCHANGED <<now, ticks, nreq, user, api_keys, jobs, last_grant, next_id, issued>>
    /\ UNCHANGED <<social_auth, api_to_cookie_token, token_seq, redeemed>>

\* auth_activate lines 210-215: the committed object is read again; at zero
\* the row is deleted
ActivateCheck(w) ==
    /\ reqs[w].pc = "written"
    /\ LET a == reqs[w].account_activation
           rows == RowById(a.id)
       IN  IF rows = {}
           THEN /\ Proceed(w, [reqs[w] EXCEPT !.pc = "done", !.resp = Resp(500, "unhandled")])
                /\ UNCHANGED <<account_activation, issued>>
           ELSE /\ issued' = [issued EXCEPT ![a.id].wrong = @ + 1]
                /\ IF \E x \in rows : Exhausted(x.tries)
                   THEN /\ account_activation' = account_activation \ rows
                        /\ Proceed(w, [reqs[w] EXCEPT !.pc = "done",
                                         !.resp = Resp(410, "Too many wrong tries")])
                   ELSE /\ UNCHANGED account_activation
                        /\ Proceed(w, [reqs[w] EXCEPT !.pc = "done",
                                         !.resp = Resp(400, "Wrong email or code")])
    /\ UNCHANGED <<now, ticks, nreq, user, api_keys, jobs, last_grant, next_id>>
    /\ UNCHANGED <<social_auth, api_to_cookie_token, token_seq, redeemed>>

\* auth_activate lines 217-228: the user is activated and the row deleted
ActivateCommit(w) ==
    /\ reqs[w].pc = "match"
    /\ user' = [user EXCEPT ![reqs[w].g_user].activated = TRUE]
    /\ account_activation' = account_activation \ RowById(reqs[w].account_activation.id)
    /\ Proceed(w, [reqs[w] EXCEPT !.pc = "done",
                     !.resp = Resp(200, "Account is activated, user can login now")])
    /\ UNCHANGED <<now, ticks, nreq, api_keys, jobs, last_grant, next_id, issued>>
    /\ UNCHANGED <<social_auth, api_to_cookie_token, token_seq, redeemed>>

\* mutant: a user whose record is gone is refused a new one
ReactivateLoad_NeedsRecord(w, email) ==
    /\ reqs[w].pc = "idle"
    /\ nreq' = nreq + 1
    /\ LET r == NewReq("reactivate", email, NoCode, NoPassword)
           u == GetUserByEmail(email)
           a == GetActivation(u)
       IN  Proceed(w,
             IF u = NoUser \/ user[u].activated \/ a = NoRow
             THEN [r EXCEPT !.pc = "done", !.resp = Resp(400, "Something went wrong")]
             ELSE [r EXCEPT !.pc = "replace", !.g_user = u, !.account_activation = a])
    /\ UNCHANGED <<now, ticks, user, api_keys, jobs, last_grant>>
    /\ UNCHANGED actVars
    /\ UNCHANGED <<social_auth, api_to_cookie_token, token_seq, redeemed>>

\* auth_reactivate lines 242-255: the two lookups
ReactivateLoad(w, email) ==
    /\ reqs[w].pc = "idle"
    /\ nreq' = nreq + 1
    /\ LET r == NewReq("reactivate", email, NoCode, NoPassword)
           u == GetUserByEmail(email)
           a == GetActivation(u)
       IN  Proceed(w,
             IF u = NoUser \/ user[u].activated
             THEN [r EXCEPT !.pc = "done", !.resp = Resp(400, "Something went wrong")]
             ELSE IF a # NoRow
             THEN [r EXCEPT !.pc = "replace", !.g_user = u, !.account_activation = a]
             ELSE [r EXCEPT !.pc = "create", !.g_user = u])
    /\ UNCHANGED <<now, ticks, user, api_keys, jobs, last_grant>>
    /\ UNCHANGED actVars
    /\ UNCHANGED <<social_auth, api_to_cookie_token, token_seq, redeemed>>

\* auth_reactivate lines 256-258: the row found is deleted by its id
ReactivateDelete(w) ==
    /\ reqs[w].pc = "replace"
    /\ account_activation' = account_activation \ RowById(reqs[w].account_activation.id)
    /\ Proceed(w, [reqs[w] EXCEPT !.pc = "create"])
    /\ UNCHANGED <<now, ticks, nreq, user, api_keys, jobs, last_grant, next_id, issued>>
    /\ UNCHANGED <<social_auth, api_to_cookie_token, token_seq, redeemed>>

\* auth_reactivate lines 260-272: a row with a new code is inserted
ReactivateCreate(w, newcode) ==
    /\ reqs[w].pc = "create"
    /\ LET u == reqs[w].g_user
       IN  IF UniqueViolation(u)
           THEN /\ Proceed(w, [reqs[w] EXCEPT !.pc = "done", !.resp = Resp(500, "unhandled")])
                /\ UNCHANGED <<account_activation, next_id, issued>>
           ELSE /\ account_activation' = account_activation \cup {NewActivation(u, newcode)}
                /\ next_id' = next_id + 1
                /\ issued' = Append(issued, [user_id |-> u, code |-> newcode, wrong |-> 0,
                                          by |-> reqs[w].id])
                /\ Proceed(w, [reqs[w] EXCEPT !.pc = "done",
                                 !.account_activation = NewActivation(u, newcode),
                                 !.resp = Resp(200, "User needs to confirm their account")])
    /\ UNCHANGED <<now, ticks, nreq, user, api_keys, jobs, last_grant>>
    /\ UNCHANGED <<social_auth, api_to_cookie_token, token_seq, redeemed>>

\* an empty datastore
ActInit ==
    /\ now = 0
    /\ ticks = 0
    /\ nreq = 0
    /\ user = [u \in Users |->
                 [registered |-> FALSE, activated |-> FALSE, disabled |-> FALSE,
                  active |-> TRUE, password |-> NoPassword,
                  delete_on |-> Null, enable_otp |-> FALSE, fido |-> FALSE]]
    /\ api_keys = <<>>
    /\ jobs = <<>>
    /\ reqs = [w \in Workers |-> IdleReq]
    /\ last = IdleReq
    /\ last_grant = <<>>
    /\ account_activation = {}
    /\ next_id = 1
    /\ issued = <<>>
    /\ social_auth = {}
    /\ api_to_cookie_token = {}
    /\ token_seq = 0
    /\ redeemed = <<>>

\* the requests of the activation flow, received by the pool W, at most n
ActStep(W, n) ==
    \/ \E w \in W, email \in Applicants \cup {NoEmail},
          pw \in RegisterPasswords \cup {NoPassword}, newcode \in Codes :
          nreq < n /\ FirstFree(W, w) /\ Register(w, email, pw, newcode)
    \/ \E w \in W, email \in Users \cup {NoEmail}, code \in Codes \cup {NoCode} :
          nreq < n /\ FirstFree(W, w) /\ ActivateLoad(w, email, code)
    \/ \E w \in W : ActivateWrite(w)
    \/ \E w \in W : ActivateCheck(w)
    \/ \E w \in W : ActivateCommit(w)
    \/ \E w \in W, email \in Users :
          nreq < n /\ FirstFree(W, w) /\ ReactivateLoad(w, email)
    \/ \E w \in W : ReactivateDelete(w)
    \/ \E w \in W, newcode \in Codes : ReactivateCreate(w, newcode)

\* submissions made one after another
ActNext == ActStep(OneWorker, MaxActReq)

SpecAct == ActInit /\ [][ActNext]_vars

\* requests handled by two workers at once
ActRaceNext == ActStep(Workers, MaxRaceReq)

SpecActRace == ActInit /\ [][ActRaceNext]_vars

----------------------------------------------------------------------------
(* src/app/api/views/auth.py: auth_login, auth_facebook, auth_google and    *)
(* auth_payload; src/app/api/views/auth_mfa.py: auth_mfa;                   *)
(* src/app/api/views/user_info.py: create_api_key                           *)

\* how many requests the login specifications receive: the login flows alone,
\* and the login flows with create_api_key
MaxLoginReq == 3
MaxKeyReq == 4

Devices == {"d1", "d2"}
\* the codes ApiKey.create draws, in the order it draws them
KeyPool == <<"k1", "k2", "k3", "k4", "k5", "k6", "k7", "k8">>
Providers == {"facebook", "google"}
\* what the identity provider answers for a provider token: the verified
\* email, or an error on a token it does not know
InvalidProviderToken == "invalid"

\* User.id of a user, and User.get(id)
UserId(u) == IF u = "u1" THEN 1 ELSE 2
UserGet(id) ==
    IF id = 1 /\ user["u1"].registered THEN "u1"
    ELSE IF id = 2 /\ user["u2"].registered THEN "u2"
    ELSE NoUser

\* str(n) for the ids of the model, and int(s): ValueError is -1
Str(n) == IF n = 1 THEN "1" ELSE IF n = 2 THEN "2" ELSE "9"
ValueError == -1
ParseInt(s) == IF s = "1" THEN 1 ELSE IF s = "2" THEN 2 ELSE IF s = "9" THEN 9 ELSE ValueError

\* itsdangerous.Signer: the signature is made with a secret over the payload
FLASK_SECRET == "flask-secret"
OtherSecret == "other-secret"
Sign(secret, payload) == [payload |-> payload, sig |-> <<secret, payload>>]
BadSignature == "bad-signature"

\* mutant: the payload is taken without verifying the signature
Unsign_Unverified(secret, signed) == signed.payload

\* Signer(secret).unsign(signed)
Unsign(secret, signed) ==
    IF signed.sig = <<secret, signed.payload>> THEN signed.payload ELSE BadSignature

\* auth_mfa lines 44-49: the user id of an mfa_key, ValueError when rejected
MfaKeyUserId(mfa_key) ==
    IF Unsign(FLASK_SECRET, mfa_key) = BadSignature THEN ValueError
    ELSE ParseInt(Unsign(FLASK_SECRET, mfa_key))

\* pyotp: the 30-second time step of the clock, and the check of a code made
\* at some time step against a secret, 2 steps either way
TimeStep == now \div 30
OtpSecret(u) == IF u = "u1" THEN "s1" ELSE "s2"
\* mutant: a code made from any secret is accepted
TotpVerify_AnySecret(secret, otp, valid_window) ==
    /\ otp.counter - TimeStep <= valid_window
    /\ TimeStep - otp.counter <= valid_window
\* pyotp.TOTP(secret).verify(otp, valid_window=valid_window)
TotpVerify(secret, otp, valid_window) ==
    /\ otp.secret = secret
    /\ otp.counter - TimeStep <= valid_window
    /\ TimeStep - otp.counter <= valid_window

\* ApiKey.get_by(user_id=u, name=d) returns one of these, None when empty
KeysOf(u, d) == {k \in DOMAIN api_keys : api_keys[k].user_id = u /\ api_keys[k].name = d}

\* ApiKey.create(user_id, name): a code never drawn before, zeroed usage
\* counters and no elevation
NextKeyCode == KeyPool[Cardinality(DOMAIN api_keys) + 1]
NewApiKey(u, d) ==
    [user_id |-> u, name |-> d, times |-> 0, last_used |-> Null, sudo_mode_at |-> Null]
WithNewKey(u, d) ==
    [k \in DOMAIN api_keys \cup {NextKeyCode} |->
        IF k = NextKeyCode THEN NewApiKey(u, d) ELSE api_keys[k]]

\* auth_payload lines 385-386: the exchange token signed for user u
ExchangeToken(u) == Sign(FLASK_SECRET, Str(UserId(u)))

\* auth_login line 85
FidoBlocks(u) == user[u].fido /\ ~user[u].enable_otp

\* auth_login lines 48-86: the validation and the account checks
LoginError(email, pw, device) ==
    LET u == GetUserByEmail(email)
    IN  IF email = NoEmail /\ pw = NoPassword /\ device = NoDevice
        THEN Resp(400, "Request body cannot be empty")
        ELSE IF email = NoEmail \/ pw = NoPassword \/ device = NoDevice
        THEN Resp(400, "Missing required fields")
        ELSE IF u = NoUser \/ ~check_password(u, pw)
        THEN Resp(400, "Email or password incorrect")
        ELSE IF user[u].disabled
        THEN Resp(400, "Account disabled")
        ELSE IF user[u].delete_on # Null
        THEN Resp(400, "Account scheduled for deletion")
        ELSE IF ~user[u].activated
        THEN Resp(403, "Account not activated")
        ELSE IF FidoBlocks(u)
        THEN Resp(403, "FIDO authentication is not supported for this application")
        ELSE NoResp

\* auth_login up to the call of auth_payload
LoginLoad(w, email, pw, device) ==
    /\ reqs[w].pc = "idle"
    /\ nreq' = nreq + 1
    /\ LET r == [NewReq("login", email, NoCode, pw) EXCEPT !.device = device]
           err == LoginError(email, pw, device)
       IN  Proceed(w,
             IF err # NoResp
             THEN [r EXCEPT !.pc = "done", !.resp = err]
             ELSE [r EXCEPT !.pc = "payload", !.g_user = GetUserByEmail(email)])
    /\ UNCHANGED <<now, ticks, user, api_keys, jobs, last_grant, social_auth>>
    /\ UNCHANGED actVars
    /\ UNCHANGED tokenVars

\* mutant: the key is handed out whether or not the user enabled MFA
MfaRequired_Never(u) == FALSE
\* auth_payload line 384
MfaRequired(u) == user[u].enable_otp

\* auth_payload lines 381-400 when no key has to be created: the MFA
\* exchange token, or the key found for the device and the web login
Payload(w) ==
    /\ reqs[w].pc = "payload"
    /\ LET r == reqs[w]
           u == r.g_user
       IN  IF MfaRequired(u)
           THEN Proceed(w, [r EXCEPT !.pc = "done", !.resp = Resp(200, ""),
                              !.ret_mfa_key = Sign(FLASK_SECRET, Str(UserId(u)))])
           ELSE IF KeysOf(u, r.device) = {}
           THEN Proceed(w, [r EXCEPT !.pc = "new_key"])
           ELSE \E k \in KeysOf(u, r.device) :
                   Proceed(w, [r EXCEPT !.pc = "done", !.resp = Resp(200, ""),
                                 !.ret_api_key = k, !.login_user = u])
    /\ UNCHANGED <<now, ticks, nreq, user, api_keys, jobs, last_grant, social_auth>>
    /\ UNCHANGED actVars
    /\ UNCHANGED tokenVars

\* auth_payload lines 391-398: the key is created and committed
PayloadCreateKey(w) ==
    /\ reqs[w].pc = "new_key"
    /\ Cardinality(DOMAIN api_keys) < Len(KeyPool)
    /\ api_keys' = WithNewKey(reqs[w].g_user, reqs[w].device)
    /\ Proceed(w, [reqs[w] EXCEPT !.pc = "done", !.resp = Resp(200, ""),
                     !.ret_api_key = NextKeyCode, !.login_user = reqs[w].g_user])
    /\ UNCHANGED <<now, ticks, nreq, user, jobs, last_grant, social_auth>>
    /\ UNCHANGED actVars
    /\ UNCHANGED tokenVars

\* auth_facebook / auth_google up to the user lookup; `email` is what the
\* provider answers for the token
SocialLoad(w, provider, email, device) ==
    /\ reqs[w].pc = "idle"
    /\ nreq' = nreq + 1
    /\ LET r == [NewReq(provider, email, NoCode, NoPassword) EXCEPT
                     !.device = device, !.provider = provider]
           u == GetUserByEmail(email)
       IN  Proceed(w,
             IF email = InvalidProviderToken
             THEN \* the provider's client raises
                  [r EXCEPT !.pc = "done", !.resp = Resp(500, "unhandled")]
             ELSE IF u # NoUser
             THEN [r EXCEPT !.pc = "social_auth", !.g_user = u]
             ELSE IF DISABLE_REGISTRATION
             THEN [r EXCEPT !.pc = "done", !.resp = Resp(400, "registration is closed")]
             ELSE IF ~email_can_be_used_as_mailbox(email) \/ personal_email_already_used(email)
             THEN [r EXCEPT !.pc = "done", !.resp = Resp(400, "cannot use email as personal inbox")]
             ELSE [r EXCEPT !.pc = "social_user"])
    /\ UNCHANGED <<now, ticks, user, api_keys, jobs, last_grant, social_auth>>
    /\ UNCHANGED actVars
    /\ UNCHANGED tokenVars

\* User.create(email=email, ..., activated=True) and its commit; the email
\* column is unique
SocialCreateUser(w) ==
    /\ reqs[w].pc = "social_user"
    /\ LET r == reqs[w]
       IN  IF user[r.email].registered
           THEN /\ Proceed(w, [r EXCEPT !.pc = "done", !.resp = Resp(500, "unhandled")])
                /\ UNCHANGED user
           ELSE /\ user' = [user EXCEPT ![r.email] =
                              [registered |-> TRUE, activated |-> TRUE,
                               disabled |-> FALSE, active |-> TRUE, password |-> NoPassword,
                               delete_on |-> Null, enable_otp |-> FALSE, fido |-> FALSE]]
                /\ Proceed(w, [r EXCEPT !.pc = "social_auth", !.g_user = r.email])
    /\ UNCHANGED <<now, ticks, nreq, api_keys, jobs, last_grant, social_auth>>
    /\ UNCHANGED actVars
    /\ UNCHANGED tokenVars

\* SocialAuth.get_by(user_id, social) and, when absent, create and commit
SocialLink(w) ==
    /\ reqs[w].pc = "social_auth"
    /\ social_auth' = social_auth \cup {<<reqs[w].g_user, reqs[w].provider>>}
    /\ Proceed(w, [reqs[w] EXCEPT !.pc = "payload"])
    /\ UNCHANGED <<now, ticks, nreq, user, api_keys, jobs, last_grant>>
    /\ UNCHANGED actVars
    /\ UNCHANGED tokenVars

\* mutant: the exchange token of a user who was handed a key is spent
MfaError_SingleUse(mfa_token, mfa_key, device) ==
    LET u == UserGet(MfaKeyUserId(mfa_key))
    IN  IF mfa_token = NoTotp /\ mfa_key = NoMfaKey /\ device = NoDevice
        THEN Resp(400, "Request body cannot be empty")
        ELSE IF mfa_token = NoTotp \/ mfa_key = NoMfaKey \/ device = NoDevice
        THEN Resp(400, "Missing required fields")
        ELSE IF MfaKeyUserId(mfa_key) = ValueError
        THEN Resp(400, "Invalid mfa_key")
        ELSE IF u = NoUser \/ (\E k \in DOMAIN api_keys : api_keys[k].user_id = u)
        THEN Resp(400, "Invalid mfa_key")
        ELSE IF ~user[u].enable_otp
        THEN Resp(400, "This endpoint should only be used by users who enable MFA")
        ELSE IF ~TotpVerify(OtpSecret(u), mfa_token, 2)
        THEN Resp(400, "Wrong TOTP Token")
        ELSE NoResp

\* auth_mfa lines 32-64: the checks made before a key is handed out
MfaError(mfa_token, mfa_key, device) ==
    LET u == UserGet(MfaKeyUserId(mfa_key))
    IN  IF mfa_token = NoTotp /\ mfa_key = NoMfaKey /\ device = NoDevice
        THEN Resp(400, "Request body cannot be empty")
        ELSE IF mfa_token = NoTotp \/ mfa_key = NoMfaKey \/ device = NoDevice
        THEN Resp(400, "Missing required fields")
        ELSE IF MfaKeyUserId(mfa_key) = ValueError
        THEN Resp(400, "Invalid mfa_key")
        ELSE IF u = NoUser
        THEN Resp(400, "Invalid mfa_key")
        ELSE IF ~user[u].enable_otp
        THEN Resp(400, "This endpoint should only be used by users who enable MFA")
        ELSE IF ~TotpVerify(OtpSecret(u), mfa_token, 2)
        THEN Resp(400, "Wrong TOTP Token")
        ELSE NoResp

\* send_invalid_totp_login_email(user, "TOTP"): the notification to user u is
\* triggered; whether it is delivered does not come back to the caller
Notify(r, u, delivered) == [r EXCEPT !.notified = u, !.delivered = delivered]

\* auth_mfa lines 32-81 when no key has to be created
MfaLoad(w, mfa_token, mfa_key, device) ==
    /\ reqs[w].pc = "idle"
    /\ nreq' = nreq + 1
    /\ LET r == [NewReq("mfa", NoEmail, NoCode, NoPassword) EXCEPT
                     !.device = device, !.mfa_key = mfa_key, !.mfa_token = mfa_token]
           err == MfaError(mfa_token, mfa_key, device)
           u == UserGet(MfaKeyUserId(mfa_key))
       IN  IF err = Resp(400, "Wrong TOTP Token")
           THEN \E delivered \in BOOLEAN :
                   Proceed(w, Notify([r EXCEPT !.pc = "done", !.resp = err], u, delivered))
           ELSE IF err # NoResp
           THEN Proceed(w, [r EXCEPT !.pc = "done", !.resp = err])
           ELSE IF KeysOf(u, device) = {}
           THEN Proceed(w, [r EXCEPT !.pc = "mfa_new_key", !.g_user = u])
           ELSE \E k \in KeysOf(u, device) :
                   Proceed(w, [r EXCEPT !.pc = "done", !.g_user = u, !.resp = Resp(200, ""),
                                 !.ret_api_key = k, !.login_user = u])
    /\ UNCHANGED <<now, ticks, user, api_keys, jobs, last_grant, social_auth>>
    /\ UNCHANGED actVars
    /\ UNCHANGED tokenVars

\* auth_mfa lines 71-81: the key is created and committed
MfaCreateKey(w) ==
    /\ reqs[w].pc = "mfa_new_key"
    /\ Cardinality(DOMAIN api_keys) < Len(KeyPool)
    /\ api_keys' = WithNewKey(reqs[w].g_user, reqs[w].device)
    /\ Proceed(w, [reqs[w] EXCEPT !.pc = "done", !.resp = Resp(200, ""),
                     !.ret_api_key = NextKeyCode, !.login_user = reqs[w].g_user])
    /\ UNCHANGED <<now, ticks, nreq, user, jobs, last_grant, social_auth>>
    /\ UNCHANGED actVars
    /\ UNCHANGED tokenVars

\* the body of create_api_key
CreateApiKey(w, device) ==
    /\ reqs[w].pc = "body"
    /\ reqs[w].ep = "create_api_key"
    /\ LET r == [reqs[w] EXCEPT !.device = device]
       IN  IF device = NoDevice
           THEN /\ Proceed(w, [r EXCEPT !.pc = "done",
                                 !.resp = Resp(400, "Device name is required")])
                /\ UNCHANGED api_keys
           ELSE /\ Cardinality(DOMAIN api_keys) < Len(KeyPool)
                /\ api_keys' = WithNewKey(r.g_user, device)
                /\ Proceed(w, [r EXCEPT !.pc = "done", !.resp = Resp(201, ""),
                                 !.ret_api_key = NextKeyCode])
    /\ UNCHANGED <<now, ticks, nreq, user, jobs, last_grant, social_auth>>
    /\ UNCHANGED actVars
    /\ UNCHANGED tokenVars

\* the values a client sends as mfa_key: the token the service signs for a
\* user, tokens signed over other payloads or with another secret, and a
\* token whose payload was replaced after signing
MfaKeys ==
    {Sign(FLASK_SECRET, "1"), Sign(FLASK_SECRET, "9"), Sign(FLASK_SECRET, "x"),
     Sign(OtherSecret, "1"), [payload |-> "1", sig |-> <<FLASK_SECRET, "9">>]}
\* the TOTP codes a client sends: made from the user's secret 2 or 3 time
\* steps away from the server's clock, or from another secret
TotpCodes ==
    {[secret |-> "s1", counter |-> 2], [secret |-> "s1", counter |-> 3],
     [secret |-> "s2", counter |-> 2]}

\* one account, usable for login or failing one of the three conditions, with
\* or without MFA and a FIDO key; the other address has no account
AccountStates == {"usable", "unactivated", "disabled", "scheduled"}
LoginInit ==
    /\ now = 0
    /\ ticks = 0
    /\ nreq = 0
    /\ \E status \in AccountStates, enable_otp \in BOOLEAN, fido \in BOOLEAN :
         /\ fido => status = "usable"
         /\ user = [u \in Users |->
                   IF u = "u1"
                   THEN [registered |-> TRUE, activated |-> status # "unactivated",
                         disabled |-> status = "disabled",
                         active |-> TRUE, password |-> PasswordOf(u),
                         delete_on |-> IF status = "scheduled" THEN At(0) ELSE Null,
                         enable_otp |-> enable_otp, fido |-> fido]
                   ELSE [registered |-> FALSE, activated |-> FALSE, disabled |-> FALSE,
                         active |-> TRUE, password |-> NoPassword,
                         delete_on |-> Null, enable_otp |-> FALSE, fido |-> FALSE]]
    /\ api_keys = <<>>
    /\ jobs = <<>>
    /\ reqs = [w \in Workers |-> IdleReq]
    /\ last = IdleReq
    /\ last_grant = <<>>
    /\ account_activation = {}
    /\ next_id = 1
    /\ issued = <<>>
    /\ social_auth = {}
    /\ api_to_cookie_token = {}
    /\ token_seq = 0
    /\ redeemed = <<>>

\* the requests of the login flows (login, social login, MFA), received by
\* the pool W, at most n
SignInStep(W, n) ==
    \/ \E w \in W, email \in Users \cup {NoEmail}, pw \in Passwords \cup {NoPassword},
          device \in Devices \cup {NoDevice} :
          nreq < n /\ FirstFree(W, w) /\ LoginLoad(w, email, pw, device)
    \/ \E w \in W : Payload(w)
    \/ \E w \in W : PayloadCreateKey(w)
    \/ \E w \in W, provider \in Providers, email \in Users \cup {InvalidProviderToken},
          device \in {"d1"} :
          nreq < n /\ FirstFree(W, w) /\ SocialLoad(w, provider, email, device)
    \/ \E w \in W : SocialCreateUser(w)
    \/ \E w \in W : SocialLink(w)
    \/ \E w \in W, mfa_token \in TotpCodes \cup {NoTotp}, mfa_key \in MfaKeys \cup {NoMfaKey},
          device \in {"d1", NoDevice} :
          nreq < n /\ FirstFree(W, w) /\ MfaLoad(w, mfa_token, mfa_key, device)
    \/ \E w \in W : MfaCreateKey(w)

\* login flows served one after another
SignInNext == SignInStep(OneWorker, MaxLoginReq)

SpecSignIn == LoginInit /\ [][SignInNext]_vars

\* the login flows together with create_api_key behind its gate
LoginStep(W, n) ==
    \/ SignInStep(W, n)
    \/ \E w \in W, hdr \in {KeyPool[1], KeyPool[2], NoHeader}, sess \in {"u1", NoUser} :
          nreq < n /\ FirstFree(W, w) /\ Authorize(w, "create_api_key", hdr, sess, NoPassword)
    \/ \E w \in W : RecordUsage(w)
    \/ \E w \in W, device \in {"d1", NoDevice} : CreateApiKey(w, device)

\* requests served one after another
LoginNext == LoginStep(OneWorker, MaxKeyReq)

SpecLogin == LoginInit /\ [][LoginNext]_vars

\* requests served by two workers at once
LoginRaceNext == LoginStep(Workers, MaxLoginReq)

SpecLoginRace == LoginInit /\ [][LoginRaceNext]_vars

\* The MFA exchange over time: verifyMfa requests for either device, with
\* codes made at the first time steps and at the time steps reached once the
\* clock has advanced, or from another secret.
ReplayCodes ==
    {[secret |-> "s1", counter |-> 2], [secret |-> "s1", counter |-> 10],
     [secret |-> "s2", counter |-> 2]}

MfaReplayStep(W, n) ==
    \/ \E w \in W, mfa_token \in ReplayCodes \cup {NoTotp},
          mfa_key \in {ExchangeToken("u1"), Sign(OtherSecret, "1"), NoMfaKey},
          device \in Devices :
          nreq < n /\ FirstFree(W, w) /\ MfaLoad(w, mfa_token, mfa_key, device)
    \/ \E w \in W : MfaCreateKey(w)
    \/ Tick

MfaReplayNext == MfaReplayStep(OneWorker, MaxLoginReq)

SpecMfaReplay == LoginInit /\ [][MfaReplayNext]_vars

\* Elevation with several keys: two users in good standing, the first with
\* a key on each of two devices, the second with one key; elevation is
\* entered through any of them and further keys are issued by create_api_key.
ElevOwner(k) == IF k = KeyPool[3] THEN "u2" ELSE "u1"
ElevDevice(k) == IF k = KeyPool[2] THEN "d2" ELSE "d1"
ElevInit ==
    /\ now = 0
    /\ ticks = 0
    /\ nreq = 0
    /\ user = [u \in Users |->
                 [registered |-> TRUE, activated |-> TRUE, disabled |-> FALSE,
                  active |-> TRUE, password |-> PasswordOf(u),
                  delete_on |-> Null, enable_otp |-> FALSE, fido |-> FALSE]]
    /\ api_keys = [k \in {KeyPool[1], KeyPool[2], KeyPool[3]} |->
                     [user_id |-> ElevOwner(k), name |-> ElevDevice(k), times |-> 0,
                      last_used |-> Null, sudo_mode_at |-> Null]]
    /\ jobs = <<>>
    /\ reqs = [w \in Workers |-> IdleReq]
    /\ last = IdleReq
    /\ last_grant = [k \in {KeyPool[i] : i \in 1..Len(KeyPool)} |-> Null]
    /\ account_activation = {}
    /\ next_id = 1
    /\ issued = <<>>
    /\ social_auth = {}
    /\ api_to_cookie_token = {}
    /\ token_seq = 0
    /\ redeemed = <<>>

ElevStep(W) ==
    \/ \E w \in W, ep \in {"enter_sudo", "create_api_key"},
          hdr \in {KeyPool[1], KeyPool[2], KeyPool[3], KeyPool[4]},
          pw \in Passwords \cup {NoPassword} :
          /\ ep = "create_api_key" => pw = NoPassword
          /\ FirstFree(W, w) /\ Authorize(w, ep, hdr, NoUser, pw)
    \/ \E w \in W : RecordUsage(w)
    \/ \E w \in W : EnterSudo(w)
    \/ \E w \in W : CreateApiKey(w, "d1")
    \/ ticks = 0 /\ Tick

ElevNext == ElevStep(OneWorker)

SpecElev == ElevInit /\ [][ElevNext]_vars

----------------------------------------------------------------------------
(* src/app/api/views/user.py: get_api_session_token, and the redemption of *)
(* the tokens it creates                                                   *)

\* how many redemption attempts are made
MaxRedeem == 3

\* mutant: the token is made for the user of the web session when there is one
TokenUser_Session(r) == IF r.session # NoUser THEN r.session ELSE r.g_user
\* get_api_session_token line 69: user = g.user
TokenUser(r) == r.g_user

\* the body of get_api_session_token: with g.api_key None the attribute read
\* raises inside the try block; ApiToCookieToken.create commits or raises
GetApiSessionToken(w) ==
    /\ reqs[w].pc = "body"
    /\ reqs[w].ep = "cookie_token"
    /\ LET r == reqs[w]
           k == r.g_api_key
           failed == [r EXCEPT !.pc = "done",
                               !.resp = Resp(500, "Failed to generate session token")]
       IN  IF k = NoKey
           THEN /\ Proceed(w, failed)
                /\ UNCHANGED <<api_to_cookie_token, token_seq>>
           ELSE \/ /\ api_to_cookie_token' = api_to_cookie_token \cup
                          {[code |-> token_seq + 1, user_id |-> TokenUser(r), api_key_id |-> k]}
                   /\ token_seq' = token_seq + 1
                   /\ Proceed(w, [r EXCEPT !.pc = "done", !.resp = Resp(200, ""),
                                    !.ret_token = token_seq + 1])
                \/ /\ Proceed(w, failed)
                   /\ UNCHANGED <<api_to_cookie_token, token_seq>>
    /\ UNCHANGED <<now, ticks, nreq, user, api_keys, jobs, last_grant, social_auth, redeemed>>
    /\ UNCHANGED actVars

\* mutant: a redemption that fails leaves the token in place
Redeem_KeepOnFailure(code, ok) ==
    /\ Len(redeemed) < MaxRedeem
    /\ LET rows == {t \in api_to_cookie_token : t.code = code}
       IN  /\ redeemed' = Append(redeemed, [code |-> code, ok |-> rows # {} /\ ok])
           /\ api_to_cookie_token' = IF ok THEN api_to_cookie_token \ rows
                                     ELSE api_to_cookie_token
    /\ UNCHANGED <<now, ticks, nreq, user, api_keys, jobs, reqs, last, last_grant,
                   social_auth, token_seq>>
    /\ UNCHANGED actVars

\* redeem(token): the token presented is invalidated on first use, whether
\* the session is then established (ok) or not
Redeem(code, ok) ==
    /\ Len(redeemed) < MaxRedeem
    /\ LET rows == {t \in api_to_cookie_token : t.code = code}
       IN  /\ redeemed' = Append(redeemed, [code |-> code, ok |-> rows # {} /\ ok])
           /\ api_to_cookie_token' = api_to_cookie_token \ rows
    /\ UNCHANGED <<now, ticks, nreq, user, api_keys, jobs, reqs, last, last_grant,
                   social_auth, token_seq>>
    /\ UNCHANGED actVars

\* token requests behind the gate, and redemptions of the codes handed out
\* (0 is a code never handed out)
TokenStep(W) ==
    \/ \E w \in W, hdr \in Headers, sess \in SessionUsers \cup {NoUser} :
          FirstFree(W, w) /\ Authorize(w, "cookie_token", hdr, sess, NoPassword)
    \/ \E w \in W : RecordUsage(w)
    \/ \E w \in W : GetApiSessionToken(w)
    \/ \E code \in 0..token_seq, ok \in BOOLEAN : Redeem(code, ok)

TokenNext == TokenStep(OneWorker)

SpecToken == GateInit /\ [][TokenNext]_vars

----------------------------------------------------------------------------
(* Properties of the gate.                                                 *)

\* the requests whose gate decision has been taken: those running their
\* handler body and the one answered last
Decided == {reqs[w] : w \in {v \in Workers : reqs[v].pc = "body"}}
              \cup (IF last.pc = "done" THEN {last} ELSE {})
Running == {reqs[w] : w \in {v \in Workers : reqs[v].pc = "body"}}
AccountOk(u) == ~user[u].disabled /\ user[u].active
KeyExists(hdr) == \E k \in DOMAIN api_keys : k = hdr

\* the request answered in this step, and whether the gate answered it
Answered == last'.id # last.id
AnsweredByGate == Answered /\ \A w \in Workers : ~(reqs[w].pc = "body" /\ reqs[w].id = last'.id)
\* worker w's request passes the gate in this step
Passes(w) == reqs[w].pc # "body" /\ reqs'[w].pc = "body"

\* C1: a request whose Authentication header is the code of an ApiKey acts
\* as that key's owner with g.api_key that key, whatever session comes with
\* it; otherwise an authenticated session acts as the session user with
\* g.api_key None; otherwise the answer is 401 and no handler body runs.
C1_IdentityResolution ==
    \A r \in Decided :
        IF KeyExists(r.header)
        THEN /\ r.g_user = api_keys[r.header].user_id
             /\ (r.pc = "body" \/ r.resp.status \in {200, 500, 440}) => r.g_api_key = r.header
             /\ r.resp # Resp(401, "Wrong API key")
        ELSE IF r.session # NoUser
        THEN /\ r.g_user = r.session
             /\ r.g_api_key = NoKey
             /\ r.resp # Resp(401, "Wrong API key")
        ELSE /\ r.pc = "done"
             /\ r.resp = Resp(401, "Wrong API key")
             /\ r.g_user = NoUser

\* C1 witness: a request with key k1 (owner u1) and a session of u2 runs its
\* handler as u1.
C1_Witness ==
    \E r \in Running :
        r.header = "k1" /\ r.session = "u2" /\ r.g_user = "u1" /\ r.g_api_key = "k1"

\* C2: a handler body runs only for a user that is not disabled and is
\* active; a disabled user is answered 403, also when inactive, and an
\* inactive user that is not disabled is answered 401.
C2_AccountStatus ==
    /\ \A r \in Running : AccountOk(r.g_user)
    /\ \A r \in Decided :
          r.g_user # NoUser =>
             /\ user[r.g_user].disabled => r.resp = Resp(403, "Disabled account")
             /\ (~user[r.g_user].disabled /\ ~user[r.g_user].active)
                   => r.resp = Resp(401, "Account inactive")

\* C2 witness: a user that is disabled and inactive is answered 403.
C2_Witness ==
    /\ last.pc = "done" /\ last.g_user # NoUser
    /\ user[last.g_user].disabled /\ ~user[last.g_user].active
    /\ last.resp.status = 403

\* the elevation of key k is live now, from the stored timestamp
LiveNow(keys, k) ==
    k \in DOMAIN keys /\ \E t \in keys[k].sudo_mode_at : now - t <= SUDO_MODE_VALID * 60

\* C3: delete_user reaches its body only through an ApiKey whose
\* sudo_mode_at is set and at most 5 minutes old when checked; a request
\* that passed the account checks without such a key is answered 440, and a
\* deletion job is created only by a body that was reached this way.
C3_SudoGate ==
    [][ /\ \A w \in Workers :
             (Passes(w) /\ reqs'[w].ep = "delete_user")
                => /\ AccountOk(reqs'[w].g_user)
                   /\ reqs'[w].g_api_key # NoKey
                   /\ LiveNow(api_keys', reqs'[w].g_api_key)
        /\ (AnsweredByGate /\ last'.ep = "delete_user" /\ last'.g_user # NoUser
              /\ AccountOk(last'.g_user))
                => /\ last'.resp = Resp(440, "Sudo required")
                   /\ ~LiveNow(api_keys', last'.g_api_key)
                   /\ jobs' = jobs
        /\ (Answered /\ last'.resp.status = 440) => AnsweredByGate /\ last'.ep = "delete_user"
        /\ jobs' # jobs
               => \E w \in Workers :
                     /\ reqs[w].pc = "body" /\ reqs[w].ep = "delete_user"
                     /\ jobs' = Append(jobs, [user_id |-> reqs[w].g_user])
      ]_vars

\* C3 witness: a session-only delete_user was answered 440 after an elevated
\* key had a deletion job created.
C3_Witness ==
    /\ last.ep = "delete_user" /\ last.resp.status = 440
    /\ last.g_api_key = NoKey /\ last.g_user # NoUser
    /\ Len(jobs) = 1

\* the password of worker w's request is present and is the account's
PasswordOk(w) ==
    /\ reqs[w].password # NoPassword
    /\ reqs[w].password = user[reqs[w].g_user].password
\* worker w's request is answered in this step
AnsweredOf(w) == Answered /\ reqs[w].pc # "idle" /\ last'.id = reqs[w].id

\* C4: enter_sudo stamps sudo_mode_at = now on the request's key exactly
\* when the submitted password is present and right; otherwise it answers
\* 403 "Invalid password or missing password" and leaves every key as it
\* was.  No other step changes a sudo_mode_at.
C4_EnterSudo ==
    [][ /\ \A w \in Workers :
             (reqs[w].pc = "body" /\ reqs[w].ep = "enter_sudo" /\ AnsweredOf(w))
                => IF PasswordOk(w)
                   THEN reqs[w].g_api_key # NoKey
                          => /\ api_keys'[reqs[w].g_api_key].sudo_mode_at = At(now)
                             /\ last'.resp.status = 200
                   ELSE /\ last'.resp = Resp(403, "Invalid password or missing password")
                        /\ api_keys' = api_keys
        /\ \A k \in DOMAIN api_keys :
             api_keys'[k].sudo_mode_at # api_keys[k].sudo_mode_at
                => \E w \in Workers :
                      /\ reqs[w].pc = "body" /\ reqs[w].ep = "enter_sudo"
                      /\ reqs[w].g_api_key = k /\ PasswordOk(w) /\ AnsweredOf(w)
      ]_vars

\* C4 witness: a wrong or missing password was refused on a key that holds
\* an elevation, which is still there.
C4_Witness ==
    /\ last.ep = "enter_sudo"
    /\ last.resp = Resp(403, "Invalid password or missing password")
    /\ last.g_api_key # NoKey
    /\ api_keys[last.g_api_key].sudo_mode_at # Null

\* the elevation of key k is not live
NotElevated(k) == ~LiveNow(api_keys, k)

\* C5: with T the time of the last successful enter_sudo on a key, a
\* delete_user check through that key passes at every time t with
\* T <= t < T + 5 min and is answered 440 at every t > T + 5 min and when
\* there was no enter_sudo; an elevation that is not live stays so until the
\* next successful enter_sudo on the key.
C5_SudoWindow ==
    [][ /\ \A w \in Workers :
             (/\ reqs[w].pc = "usage" /\ reqs[w].ep = "delete_user"
              /\ reqs'[w] # reqs[w]
              /\ AccountOk(api_keys[reqs[w].key].user_id))
                => LET T == last_grant[reqs[w].key]
                   IN  /\ (\E t \in T : t <= now /\ now < t + 5 * 60)
                             => reqs'[w].pc = "body"
                       /\ (T = Null \/ \E t \in T : now > t + 5 * 60)
                             => AnsweredOf(w) /\ last'.resp.status = 440
        /\ \A k \in DOMAIN api_keys :
             (NotElevated(k) /\ last_grant'[k] = last_grant[k]) => NotElevated(k)'
      ]_vars

\* C5 witness: the key elevated at 0 let a deletion through within the
\* window and was answered 440 at 5m01s.
C5_Witness ==
    /\ last_grant["k1"] = At(0)
    /\ now = 5 * 60 + 1
    /\ Len(jobs) = 1
    /\ last.ep = "delete_user" /\ last.header = "k1" /\ last.resp.status = 440

\* the usage columns of a key
Usage(keys, k) == <<keys[k].times, keys[k].last_used>>

\* C18: a request whose Authentication header is the code of an ApiKey is
\* never answered before its usage update: the update adds one to the
\* key's counter and sets last_used to now, and is committed whatever the
\* gate then decides (403, 401, 440 or the handler); nothing else, not the
\* handler's failure nor a request authenticated by session, changes any
\* key's counter or last_used.
C18_UsageRecorded ==
    [][\A w \in Workers :
         /\ (nreq' = nreq + 1 /\ KeyExists(reqs'[w].header) /\ reqs[w].pc = "idle")
               => reqs'[w].pc = "usage"
         /\ (nreq' = nreq + 1 /\ Answered) => ~KeyExists(last'.header)
         /\ reqs'[w].pc = "usage" => KeyExists(reqs'[w].header) /\ reqs'[w].key = reqs'[w].header
         /\ IF reqs[w].pc = "usage" /\ reqs'[w].pc # "usage"
            THEN LET k == reqs[w].key
                 IN  /\ api_keys'[k].times = api_keys[k].times + 1
                     /\ api_keys'[k].last_used = At(now)
                     /\ \A j \in DOMAIN api_keys \ {k} : Usage(api_keys', j) = Usage(api_keys, j)
            ELSE (\A v \in Workers : ~(reqs[v].pc = "usage" /\ reqs'[v].pc # "usage"))
                    => \A j \in DOMAIN api_keys : Usage(api_keys', j) = Usage(api_keys, j)
      ]_vars

\* C18 witness: a request with the key of a disabled user was answered 403
\* and the key's counter and last_used carry the request.
C18_Witness ==
    /\ last.pc = "done" /\ last.key = "k1" /\ last.resp.status = 403
    /\ api_keys["k1"].times = 1 /\ api_keys["k1"].last_used # Null

\* C21: a request that does not succeed is answered with a declared error
\* response, never by an exception that leaves its handler: in particular
\* enter_sudo and get_api_session_token called through a web session alone
\* (g.api_key is None) with otherwise valid input.
C21_DeclaredFailures ==
    last.pc = "done" => last.resp # Resp(500, "unhandled")

\* C22: delete_user creates its job only in a state where the elevation of
\* the request's key is live: nothing, the clock included, moves between
\* the elevation check and the job creation.
C22_ConsistentElevation ==
    [][Len(jobs') > Len(jobs) =>
          \E w \in Workers :
             /\ reqs[w].pc = "body" /\ reqs[w].ep = "delete_user"
             /\ LiveNow(api_keys, reqs[w].g_api_key)]_vars

\* C25: elevation is per credential: a key's sudo_mode_at changes only by
\* a successful enterSudo presented through that very key, which stamps it
\* with the current time; a successful enterSudo through a key leaves every
\* other key as it was, those of the same user included, changes no key's
\* code, owner or name and creates no key; and a key is issued with no
\* elevation.
C25_PerCredential ==
    [][ /\ \A k \in DOMAIN api_keys :
             api_keys'[k].sudo_mode_at # api_keys[k].sudo_mode_at
               => /\ Answered /\ last'.ep = "enter_sudo" /\ last'.resp.status = 200
                  /\ last'.header = k
                  /\ api_keys'[k].sudo_mode_at = At(now)
        /\ (Answered /\ last'.ep = "enter_sudo" /\ last'.resp.status = 200)
               => /\ DOMAIN api_keys' = DOMAIN api_keys
                  /\ last'.header \in DOMAIN api_keys
                  /\ api_keys'[last'.header].sudo_mode_at = At(now)
                  /\ \A k \in DOMAIN api_keys :
                        /\ api_keys'[k].user_id = api_keys[k].user_id
                        /\ api_keys'[k].name = api_keys[k].name
                        /\ k # last'.header => api_keys'[k] = api_keys[k]
        /\ \A k \in DOMAIN api_keys' \ DOMAIN api_keys :
             api_keys'[k].sudo_mode_at = Null
      ]_vars

\* C25 witness: elevation was entered through a key issued by create_api_key
\* while the other keys of its owner, and the other user's key, have none.
C25_Witness ==
    /\ last.pc = "done" /\ last.ep = "enter_sudo" /\ last.resp.status = 200
    /\ last.header = KeyPool[4]
    /\ api_keys[KeyPool[4]].sudo_mode_at # Null
    /\ \E k \in DOMAIN api_keys :
          /\ k # KeyPool[4] /\ api_keys[k].user_id = api_keys[KeyPool[4]].user_id
          /\ api_keys[k].sudo_mode_at = Null
    /\ \A k \in DOMAIN api_keys : k # KeyPool[4] => api_keys[k].sudo_mode_at = Null

----------------------------------------------------------------------------
(* Properties of the activation flow.                                      *)

\* the records issued to user u so far, by id, and the latest of them
IssuedFor(u) == {i \in 1..Len(issued) : issued[i].user_id = u}
LatestIssued(u) == CHOOSE i \in IssuedFor(u) : \A j \in IssuedFor(u) : j <= i
RowsOf(table, u) == {a \in table : a.user_id = u}
LiveRows(u) == RowsOf(account_activation, u)

\* C6: on a record issued with a budget of TriesBudget tries, with
\* submissions made one after another, a wrong code that is not the last one
\* allowed is answered "Wrong email or code" and takes one try, the
\* TriesBudget-th wrong code deletes the record and is answered 410, and the
\* issued code submitted after fewer than TriesBudget wrong ones activates
\* the user and deletes the record.
C6_RetryBudget ==
    [][ \A w \in Workers :
          /\ (reqs[w].pc = "mismatch" /\ reqs'[w].pc = "written")
                => \E x \in account_activation, y \in account_activation' :
                      /\ x.id = reqs[w].account_activation.id /\ y.id = x.id
                      /\ y.tries = x.tries - 1
          /\ (AnsweredOf(w) /\ reqs[w].ep = "activate"
                /\ reqs[w].account_activation # NoRow)
                => LET a == reqs[w].account_activation
                       k == issued[a.id].wrong
                       u == a.user_id
                   IN  IF reqs[w].code # issued[a.id].code
                       THEN /\ ~user'[u].activated
                            /\ IF k + 1 < TriesBudget
                               THEN /\ last'.resp = Resp(400, "Wrong email or code")
                                    /\ \E x \in account_activation' :
                                          x.id = a.id /\ x.tries = TriesBudget - (k + 1)
                               ELSE /\ k + 1 = TriesBudget
                                    /\ last'.resp.status = 410
                                    /\ RowsOf(account_activation', u) = {}
                       ELSE /\ k < TriesBudget
                            /\ last'.resp.status = 200
                            /\ user'[u].activated
                            /\ RowsOf(account_activation', u) = {}
      ]_vars

\* C6 witness: the issued code was accepted on the last attempt allowed,
\* after TriesBudget - 1 wrong ones.
C6_Witness ==
    /\ last.ep = "activate" /\ last.resp.status = 200
    /\ issued[last.account_activation.id].wrong = TriesBudget - 1
    /\ user[last.g_user].activated

\* the request answered last submitted the code of the user's latest record
\* after TriesBudget wrong codes had been answered on it, with no re-issue
SubmittedAfterExhaustion ==
    /\ last.pc = "done" /\ last.ep = "activate"
    /\ last.email \in Users /\ IssuedFor(last.email) # {}
    /\ LET i == LatestIssued(last.email)
       IN  issued[i].wrong >= TriesBudget /\ last.code = issued[i].code

\* C7 as claimed: the issued code submitted after exhaustion and before any
\* re-issue is answered with the Exhausted outcome (410) and the user stays
\* unactivated.
C7_ExhaustedOutcome ==
    SubmittedAfterExhaustion
        => last.resp.status = 410 /\ ~user[last.email].activated

\* C7 as amended: that submission is answered with the generic
\* "Wrong email or code" (400), the answer given when no record is live, and
\* the user stays unactivated.
C7_GenericAfterExhaustion ==
    SubmittedAfterExhaustion
        => last.resp = Resp(400, "Wrong email or code") /\ ~user[last.email].activated

\* C7 witness: the issued code was submitted after exhaustion.
C7_Witness == SubmittedAfterExhaustion /\ LiveRows(last.email) = {}

\* C8: under concurrent submissions no two in-flight wrong-code submissions
\* hold the same pre-decrement tries of one record, tries is never negative,
\* at most TriesBudget wrong codes are answered on a record, and a record on
\* which TriesBudget wrong codes were answered is gone.
C8_AtomicDecrement ==
    /\ \A v, w \in Workers :
          (/\ v # w
           /\ reqs[v].pc \in {"mismatch", "written"}
           /\ reqs[w].pc \in {"mismatch", "written"}
           /\ reqs[v].account_activation.id = reqs[w].account_activation.id)
             => reqs[v].account_activation.tries # reqs[w].account_activation.tries
    /\ \A i \in 1..Len(issued) : issued[i].wrong <= TriesBudget
    /\ \A a \in account_activation : a.tries >= 0 /\ issued[a.id].wrong < TriesBudget

\* the request answered last is an activate that found the latest record of
\* its user, issued after record i of the same user, and submitted i's code
SubmittedOldCode(i) ==
    /\ last.pc = "done" /\ last.ep = "activate"
    /\ last.email \in Users /\ i \in IssuedFor(last.email)
    /\ i < LatestIssued(last.email)
    /\ last.id > issued[LatestIssued(last.email)].by
    /\ last.code = issued[i].code

\* C9 as claimed: once a re-issue is complete, a submission of the old code
\* is rejected and does not activate the user.
C9_OldCodeRejected ==
    \A i \in 1..Len(issued) : SubmittedOldCode(i) => last.resp.status # 200

\* C9 as amended: a completed re-issue leaves the user exactly one live
\* record, with the new code and the full budget, and a later submission of
\* the old code is rejected and does not activate the user when the new code
\* differs from the old one (the six digits are drawn afresh and may repeat).
C9_Reissue ==
    [][ /\ \A w \in Workers :
             (AnsweredOf(w) /\ reqs[w].ep = "reactivate" /\ last'.resp.status = 200)
                => RowsOf(account_activation', reqs[w].g_user) =
                      {[id |-> next_id, user_id |-> reqs[w].g_user,
                        code |-> issued'[next_id].code, tries |-> TriesBudget]}
        /\ \A i \in 1..Len(issued) :
             (/\ Answered
              /\ SubmittedOldCode(i)'
              /\ issued[i].code # issued[LatestIssued(last'.email)].code)
                => /\ last'.resp.status \in {400, 410}
                   /\ user' = user
      ]_vars

\* C9 witness: after a re-issue with a different code, the old code was
\* submitted while the new record was live.
C9_Witness ==
    \E i \in 1..Len(issued) :
        /\ SubmittedOldCode(i)
        /\ issued[i].code # issued[LatestIssued(last.email)].code
        /\ last.account_activation.id = LatestIssued(last.email)

C16_UniformResend ==
    (last.pc = "done" /\ last.ep = "reactivate")
        => last.resp = Resp(200, "User needs to confirm their account")

\* the generic failure of verifyActivation
WrongEmailOrCode == Resp(400, "Wrong email or code")

\* C17: a verifyActivation naming an email and a code is answered with the
\* generic failure and changes nothing when the email has no account, when
\* the account is already activated and when the account has no live
\* record; a wrong code that leaves the record of an unactivated account
\* live gets the very same answer.
C17_GenericFailure ==
    [][(Answered /\ last'.ep = "activate" /\ last'.email \in Users /\ last'.code # NoCode) =>
          LET r == last'
              e == r.email
          IN  /\ (~user[e].registered \/ user[e].activated \/ LiveRows(e) = {})
                    => /\ r.resp = WrongEmailOrCode
                       /\ UNCHANGED <<user, account_activation, next_id, issued, api_keys,
                                      jobs, social_auth, tokenVars>>
              /\ (/\ user[e].registered /\ ~user[e].activated
                  /\ \E a \in LiveRows(e) : a.code # r.code
                  /\ RowsOf(account_activation', e) # {})
                    => r.resp = WrongEmailOrCode]_vars

\* C17 witness: the generic failure was given for an email without an
\* account while another account awaits activation.
C17_Witness ==
    /\ last.pc = "done" /\ last.ep = "activate" /\ last.email \in Users
    /\ ~user[last.email].registered /\ last.code # NoCode
    /\ last.resp = WrongEmailOrCode
    /\ \E u \in Users : LiveRows(u) # {}

\* the latest record of user u took TriesBudget wrong codes and was deleted,
\* and u is still unactivated
ExhaustedFor(u) ==
    /\ u \in Users /\ user[u].registered /\ ~user[u].activated
    /\ IssuedFor(u) # {}
    /\ issued[LatestIssued(u)].wrong >= TriesBudget
    /\ LiveRows(u) = {}

\* the live record of user u was issued after an earlier record of u had
\* been exhausted, and no wrong code was submitted on it yet
ReissuedAfterExhaustion(u) ==
    /\ u \in Users /\ user[u].registered /\ ~user[u].activated
    /\ IssuedFor(u) # {}
    /\ \E j \in IssuedFor(u) : j < LatestIssued(u) /\ issued[j].wrong >= TriesBudget
    /\ issued[LatestIssued(u)].wrong = 0
    /\ \E a \in LiveRows(u) : a.id = LatestIssued(u)

\* C24: exhaustion ends the code, not the account: a resendActivation for
\* an unactivated user whose record was exhausted and deleted succeeds and
\* leaves exactly one fresh record with the full budget, and a following
\* verifyActivation with the newly issued code activates the user.
C24_FreshAfterExhaustion ==
    [][ /\ (Answered /\ last'.ep = "reactivate" /\ ExhaustedFor(last'.email))
              => /\ last'.resp.status = 200
                 /\ RowsOf(account_activation', last'.email) =
                       {[id |-> next_id, user_id |-> last'.email,
                         code |-> issued'[next_id].code, tries |-> TriesBudget]}
        /\ (/\ Answered /\ last'.ep = "activate"
            /\ ReissuedAfterExhaustion(last'.email)
            /\ last'.code = issued[LatestIssued(last'.email)].code)
              => /\ last'.resp.status = 200
                 /\ user'[last'.email].activated
      ]_vars

\* C24 witness: a user was activated with a code issued after an earlier
\* record of the same user had been exhausted.
C24_Witness ==
    /\ last.pc = "done" /\ last.ep = "activate" /\ last.resp.status = 200
    /\ user[last.email].activated
    /\ \E j \in IssuedFor(last.email) :
          j < last.account_activation.id /\ issued[j].wrong >= TriesBudget

\* C27: under any interleaving of verifyActivation and resendActivation
\* requests, after every step an activated user has no live
\* AccountActivation record, every live record has between 1 and
\* TriesBudget tries, and no step takes User.activated from true to false.
C27_ActivationInvariants ==
    [][ /\ \A u \in Users :
             user'[u].activated => RowsOf(account_activation', u) = {}
        /\ \A a \in account_activation' : a.tries >= 1 /\ a.tries <= TriesBudget
        /\ \A u \in Users : user[u].activated => user'[u].activated
      ]_vars

----------------------------------------------------------------------------
(* Properties of the login flows.                                          *)

\* the exchange token of request r is what the service signs for user u
TokenOf(r, u) == r.mfa_key = Sign(FLASK_SECRET, Str(UserId(u)))
\* the TOTP code of request r is made from u's secret, within 2 time steps
CodeOf(r, u) ==
    /\ r.mfa_token.secret = OtpSecret(u)
    /\ r.mfa_token.counter \in (now \div 30) - 2 .. (now \div 30) + 2
\* request r hands out a key or a session
Grants(r) == r.ret_api_key # NoKey \/ r.login_user # NoUser
\* the keys owned by u in a table
OwnedBy(keys, u) == {k \in DOMAIN keys : keys[k].user_id = u}

\* C11: auth_mfa answers 200 with a key of user u and logs u in exactly when
\* the mfa_key is the service's signature over u's integer id, u exists and
\* has MFA enabled, and the TOTP code verifies against u's secret (and a
\* device is named); every other request (another signing key, a payload
\* changed after signing or not an integer, an unknown user, MFA disabled, a
\* wrong code) is answered 400, creates no key and logs nobody in.
C11_VerifyMfa ==
    [][(Answered /\ last'.ep = "mfa") =>
          LET r == last'
              ok == \E u \in Users :
                       /\ TokenOf(r, u) /\ user[u].registered /\ user[u].enable_otp
                       /\ CodeOf(r, u) /\ r.device # NoDevice
          IN  IF ok
              THEN \E u \in Users :
                      /\ TokenOf(r, u)
                      /\ r.resp.status = 200
                      /\ r.login_user = u
                      /\ r.ret_api_key \in OwnedBy(api_keys', u)
                      /\ api_keys'[r.ret_api_key].name = r.device
              ELSE /\ r.resp.status = 400
                   /\ ~Grants(r)
                   /\ api_keys' = api_keys]_vars

\* C11 witness: a verifyMfa with the service's token for u1 and a valid code
\* has been answered with a key of u1.
C11_Witness ==
    /\ last.ep = "mfa" /\ last.resp.status = 200
    /\ last.mfa_key = Sign(FLASK_SECRET, "1")
    /\ last.ret_api_key \in DOMAIN api_keys /\ last.login_user = "u1"

\* the account a login or social-login request is for
Subject(r) == IF r.email \in Users THEN r.email ELSE NoUser

\* C12: for a user with MFA enabled, login and social login hand out no key
\* and no session and create no key; when they succeed they return only the
\* signed exchange token for that user.  In the login flows a key of such a
\* user is created or returned, and the user logged in, only by an auth_mfa
\* request carrying a valid TOTP code.
C12_MfaGate ==
    [][/\ (Answered /\ last'.ep \in {"login"} \cup Providers /\ Subject(last') # NoUser
            /\ user'[Subject(last')].enable_otp)
          => /\ ~Grants(last')
             /\ api_keys' = api_keys
             /\ last'.resp.status = 200
                   => last'.ret_mfa_key = Sign(FLASK_SECRET, Str(UserId(Subject(last'))))
       /\ \A u \in Users :
            (/\ user'[u].enable_otp
             /\ \/ OwnedBy(api_keys', u) # OwnedBy(api_keys, u)
                \/ Answered /\ last'.login_user = u
                \/ Answered /\ last'.ret_api_key \in OwnedBy(api_keys', u))
            => Answered /\ last'.ep = "mfa" /\ CodeOf(last', u)]_vars

\* C12 witness: a login with the right password of an MFA user has been
\* answered with the exchange token and nothing else.
C12_Witness ==
    /\ last.ep = "login" /\ last.resp.status = 200
    /\ user["u1"].enable_otp /\ last.email = "u1"
    /\ last.ret_mfa_key = Sign(FLASK_SECRET, "1")
    /\ last.ret_api_key = NoKey /\ last.login_user = NoUser

\* the keys of user u for device d in a table
KeysIn(keys, u, d) == {k \in DOMAIN keys : keys[k].user_id = u /\ keys[k].name = d}

\* request r is a login with the right password of an account that is
\* activated, not disabled, not scheduled for deletion, without MFA and
\* without a FIDO key, naming a device
UsableLogin(r) ==
    /\ r.ep = "login" /\ r.email \in Users /\ r.device # NoDevice
    /\ user[r.email].registered /\ user[r.email].activated /\ ~user[r.email].disabled
    /\ user[r.email].delete_on = Null
    /\ ~user[r.email].enable_otp /\ ~user[r.email].fido
    /\ r.password # NoPassword /\ r.password = user[r.email].password

\* C13: a login with valid credentials of a usable account without MFA
\* succeeds with a key of that user and device; when the device already has
\* a key the login creates none and changes no key's code, usage counter,
\* last_used or sudo_mode_at; and a login that repeats the previous login
\* (same account, same device) returns the same code.
C13_LoginIdempotent ==
    [][(Answered /\ UsableLogin(last')) =>
          /\ last'.resp.status = 200
          /\ last'.ret_api_key \in KeysIn(api_keys', last'.email, last'.device)
          /\ last'.login_user = last'.email
          /\ KeysOf(last'.email, last'.device) # {} => api_keys' = api_keys
          /\ (UsableLogin(last) /\ last.email = last'.email /\ last.device = last'.device)
                => last'.ret_api_key = last.ret_api_key]_vars

\* C14: there is at most one ApiKey per (user, device name).
C14_OneKeyPerDevice ==
    \A u \in Users, d \in Devices : Cardinality(KeysOf(u, d)) <= 1

\* the account a login operation is for: the email of a login or social
\* login, the user whose id the exchange token carries for auth_mfa
LoginSubject(r) ==
    IF r.ep = "mfa"
    THEN (IF \E u \in Users : TokenOf(r, u)
          THEN CHOOSE u \in Users : TokenOf(r, u) ELSE NoUser)
    ELSE Subject(r)
\* `activated && !disabled && delete_on is null`
UsableForLogin(u) == user[u].activated /\ ~user[u].disabled /\ user[u].delete_on = Null

\* C15: a login operation (login, auth_mfa, Facebook or Google login) for an
\* account that is not activated, is disabled or is scheduled for deletion
\* returns no key and no exchange token, creates no key and logs nobody in.
C15_UsableOnly ==
    [][(/\ Answered /\ last'.ep \in {"login", "mfa"} \cup Providers
        /\ LoginSubject(last') # NoUser
        /\ user[LoginSubject(last')].registered
        /\ ~UsableForLogin(LoginSubject(last')))
          => /\ ~Grants(last')
             /\ last'.ret_mfa_key = NoMfaKey
             /\ api_keys' = api_keys]_vars

CurrentCode(u) == [secret |-> OtpSecret(u), counter |-> TimeStep]

\* C26: verifyMfa never consumes or expires the exchange token: a verifyMfa
\* with the token of a user who has MFA enabled and already holds a key
\* obtained with it, a valid code and a device is answered 200 with the key
\* of that user for that device; a verifyMfa with a user's token, accepted
\* or refused, leaves the answer to the same token and device presented
\* again as it was; and after every step, clock advances included, the
\* token with a current code is still accepted for every device.
C26_TokenReusable ==
    [][ /\ (Answered /\ last'.ep = "mfa") =>
              /\ \A u \in Users :
                    (/\ TokenOf(last', u) /\ user[u].registered /\ user[u].enable_otp
                     /\ CodeOf(last', u) /\ last'.device # NoDevice
                     /\ OwnedBy(api_keys, u) # {})
                      => /\ last'.resp.status = 200
                         /\ last'.ret_api_key \in KeysIn(api_keys', u, last'.device)
              /\ \A u \in Users, d \in Devices :
                    (TokenOf(last', u) /\ last'.device = d)
                      => \A t \in ReplayCodes :
                            MfaError(t, ExchangeToken(u), d)' = MfaError(t, ExchangeToken(u), d)
        /\ \A u \in Users, d \in Devices :
              (user[u].registered /\ user[u].enable_otp)
                 => MfaError(CurrentCode(u), ExchangeToken(u), d)' = NoResp
      ]_vars

\* C26 witness: one exchange token obtained the key of a first device and,
\* after the clock had advanced by the whole sudo window, the key of a
\* second device.
C26_Witness ==
    /\ last.pc = "done" /\ last.ep = "mfa" /\ last.resp.status = 200
    /\ last.mfa_key = ExchangeToken("u1") /\ last.device = "d2"
    /\ now >= SudoWindow
    /\ last.ret_api_key \in KeysOf("u1", "d2")
    /\ \E k \in KeysOf("u1", "d1") : k # last.ret_api_key

----------------------------------------------------------------------------
(* Properties of the cross-channel tokens.                                 *)

\* C19: a token is created only by a get_api_session_token request that an
\* ApiKey authenticated, for the user the gate resolved and the key of the
\* request's header, so that every token's key belongs to the token's user;
\* a request authenticated by session alone creates no token.
C19_TokenBinding ==
    [][/\ \A t \in api_to_cookie_token' \ api_to_cookie_token :
             /\ Answered /\ last'.ep = "cookie_token" /\ last'.resp.status = 200
             /\ last'.ret_token = t.code
             /\ t.user_id = last'.g_user
             /\ t.api_key_id = last'.header /\ KeyExists(last'.header)
             /\ api_keys'[t.api_key_id].user_id = t.user_id
       /\ (Answered /\ last'.ep = "cookie_token" /\ ~KeyExists(last'.header))
             => /\ api_to_cookie_token' = api_to_cookie_token
                /\ last'.resp.status # 200 /\ last'.ret_token = 0
       /\ \A t \in api_to_cookie_token' : api_keys'[t.api_key_id].user_id = t.user_id
      ]_vars

\* C19 witness: a request carrying key k1 (owner u1) together with a web
\* session of u2 was answered with a token, bound to u1 and k1.
C19_Witness ==
    /\ last.ep = "cookie_token" /\ last.resp.status = 200
    /\ last.header = "k1" /\ last.session = "u2"
    /\ [code |-> last.ret_token, user_id |-> "u1", api_key_id |-> "k1"] \in api_to_cookie_token

\* C20: once a token code has been presented for redemption, whatever the
\* outcome, every later redemption of the same code fails.
C20_SingleUse ==
    \A i, j \in 1..Len(redeemed) :
        (i < j /\ redeemed[i].code = redeemed[j].code) => ~redeemed[j].ok

\* C20 witness: a token was redeemed with success and presented again.
C20_Witness ==
    /\ Len(redeemed) >= 2
    /\ redeemed[1].code = redeemed[2].code /\ redeemed[1].code \in 1..token_seq
    /\ redeemed[1].ok /\ ~redeemed[2].ok

====
